---- MODULE Spec2Model ----
(***************************************************************************)
(* Vulkan pipeline objects of ATen: the two owning handle types            *)
(* (PipelineLayout, ComputePipeline) and the two caches built on them      *)
(* (PipelineLayoutCache, ComputePipelineCache), as written in              *)
(* aten/src/ATen/native/vulkan/api/Pipeline.cpp.                           *)
(*                                                                         *)
(* One behaviour follows one kind of cache (chosen in Init): a cache S,    *)
(* constructed by its ordinary constructor, and a cache D that can be      *)
(* move-constructed from S.  Threads call retrieve, purge, the move        *)
(* constructor and the destructor; every call is cut into the steps at     *)
(* which another thread can observe it (lock, lookup, native create,       *)
(* insert, return; per-node destruction inside clear()).                   *)
(*                                                                         *)
(* The native API is the environment: a create call returns VK_SUCCESS     *)
(* with any handle value that no live object of the type carries (a        *)
(* released value may be handed out again), or an error code.              *)
(***************************************************************************)
EXTENDS Integers, FiniteSets, Sequences, TLC

VARIABLES
  kind,            \* "layout": PipelineLayoutCache, "compute": ComputePipelineCache
  keys,            \* the keys callers ask for in this behaviour
  threads,         \* the threads that exist in this behaviour
  status,          \* per cache object: "unborn", "constructing", "live", "destroying", "destroyed"
  device_,         \* per cache: device_
  pipeline_cache_, \* per cache: pipeline_cache_ (ComputePipelineCache only)
  cache_,          \* per cache: cache_, a set of nodes [key, value]
  cache_mutex_,    \* per cache: owner of cache_mutex_, or NoThread
  th,              \* per thread: position in its call and its locals
  alive,           \* native objects created and not destroyed: [handle, with]
  accel,           \* native acceleration object (VkPipelineCache) bookkeeping
  staleDestroys,   \* native destroy calls on a handle no live object carries (saturating)
  aborted,         \* a VK_CHECK failed
  made,            \* history: per cache and key, native creates since the cache was last emptied
  rets,            \* history: per cache and key, handles returned since then
  purged,          \* history: per cache, <<key, handle>> destroyed since it was last populated
  moved,           \* history: <<key, handle>> D received from S, until D is next changed
  obj,             \* free-standing PipelineLayout / ComputePipeline objects
  last             \* history: the last operation on them and what it started from

vars == <<kind, keys, threads, status, device_, pipeline_cache_, cache_,
          cache_mutex_, th, alive, accel, staleDestroys, aborted, made, rets,
          purged, moved, obj, last>>

----------------------------------------------------------------------------
(* Bounds and value domains *)

NumHandles == 2

Handles == 1..NumHandles
Threads == {"t1", "t2"}
Caches == {"S", "D"}
Kinds == {"layout", "compute"}

VK_NULL_HANDLE == 0
NoThread == "none"
Device == "device"
Devices == {Device, "device2"}
AccelHandles == {1}
VkResults == {"VK_SUCCESS", "VK_ERROR"}
End == [end |-> TRUE]

\* PipelineLayoutCache::Key is a VkDescriptorSetLayout.
SetLayouts == {1, 2}

\* ComputePipeline::Descriptor {pipeline_layout, shader_module, local_work_group}.
Descriptor(l, s, x, y, z) ==
  [pipeline_layout |-> l, shader_module |-> s, local_work_group |-> <<x, y, z>>]

BaseKey == Descriptor(1, 1, 8, 8, 1)

\* The keys that differ from BaseKey in exactly one field.
Variants ==
  { Descriptor(2, 1, 8, 8, 1), Descriptor(1, 2, 8, 8, 1), Descriptor(1, 1, 16, 8, 1),
    Descriptor(1, 1, 8, 16, 1), Descriptor(1, 1, 8, 8, 2) }

\* The sets of keys a behaviour may be about: the two descriptor set layouts, or
\* BaseKey with one of the given variants; with no variants, one key of the kind.
KeyFamilies(k, vs) ==
  IF vs = {}
  THEN (IF k = "layout" THEN {{1}} ELSE {{BaseKey}})
  ELSE (IF k = "layout" THEN {SetLayouts} ELSE { {BaseKey, v} : v \in vs })

----------------------------------------------------------------------------
(* Handle types: PipelineLayout and ComputePipeline *)

Value(d, h) == [device_ |-> d, handle_ |-> h]

\* Faulty variant, for sensitivity of the properties: a move constructor that does not reset other.handle_.
HandleMoveKeepsSource(other) ==
  [dst |-> Value(other.device_, other.handle_), src |-> other]

\* PipelineLayout(PipelineLayout&&), ComputePipeline(ComputePipeline&&)
HandleMove(other) ==
  [dst |-> Value(other.device_, other.handle_),
   src |-> [other EXCEPT !.handle_ = VK_NULL_HANDLE]]

\* Faulty variant, for sensitivity of the properties: a destructor that returns without the native destroy call.
HandleDtorCallsNone(v) == {}

\* Faulty variant, for sensitivity of the properties: a destructor without the VK_NULL_HANDLE test.
HandleDtorCallsUnchecked(v) == {v.handle_}

\* ~PipelineLayout, ~ComputePipeline: the handles passed to the native destroy.
HandleDtorCalls(v) ==
  IF VK_NULL_HANDLE = v.handle_ THEN {} ELSE {v.handle_}

\* Faulty variant, for sensitivity of the properties: a destructor that leaves handle_ as it is.
HandleDtorKeepsHandle(v) == v

\* ~PipelineLayout, ~ComputePipeline: the object afterwards.
HandleDtor(v) ==
  IF VK_NULL_HANDLE = v.handle_ THEN v ELSE [v EXCEPT !.handle_ = VK_NULL_HANDLE]

\* Faulty variant, for sensitivity of the properties: a swap that assigns without the temporaries.
swapNoTemporaries(lhs, rhs) ==
  LET lhs1 == [lhs EXCEPT !.device_ = rhs.device_, !.handle_ = rhs.handle_]
      rhs1 == [rhs EXCEPT !.device_ = lhs1.device_, !.handle_ = lhs1.handle_]
  IN [lhs |-> lhs1, rhs |-> rhs1]

\* swap(PipelineLayout&, PipelineLayout&), swap(ComputePipeline&, ComputePipeline&)
swap(lhs, rhs) ==
  LET tmp_device == lhs.device_
      tmp_handle == lhs.handle_
      lhs1 == [lhs EXCEPT !.device_ = rhs.device_, !.handle_ = rhs.handle_]
      rhs1 == [rhs EXCEPT !.device_ = tmp_device, !.handle_ = tmp_handle]
  IN [lhs |-> lhs1, rhs |-> rhs1]

\* Faulty variant, for sensitivity of the properties: an operator== that leaves local_work_group out of the comparison.
DescriptorEqNoGeometry(d1, d2) ==
  /\ d1.pipeline_layout = d2.pipeline_layout
  /\ d1.shader_module = d2.shader_module

\* operator==(const ComputePipeline::Descriptor&, const ComputePipeline::Descriptor&)
DescriptorEq(d1, d2) ==
  /\ d1.pipeline_layout = d2.pipeline_layout
  /\ d1.shader_module = d2.shader_module
  /\ d1.local_work_group = d2.local_work_group

\* Key comparison of cache_: VkDescriptorSetLayout identity, or operator== above.
KeyEq(k1, k2) ==
  IF kind = "layout" THEN k1 = k2 ELSE DescriptorEq(k1, k2)

\* cache_.find(key): the nodes an iterator may come back pointing at.
Find(c, key) == { e \in cache_[c] : KeyEq(e.key, key) }

----------------------------------------------------------------------------
(* What the constructors hand to the native create calls *)

\* sizeof(utils::uvec3::data[0u]): local_work_group is three 32-bit words.
WordSize == 4

\* Faulty variant, for sensitivity of the properties: map entries whose X and Y offsets are exchanged.
specialization_map_entiresXY ==
  << [constantID |-> 0, offset |-> 1 * WordSize, size |-> WordSize],
     [constantID |-> 1, offset |-> 0 * WordSize, size |-> WordSize],
     [constantID |-> 2, offset |-> 2 * WordSize, size |-> WordSize] >>

\* specialization_map_entires: {constantID, offset, size} for X, Y, Z.
specialization_map_entires ==
  << [constantID |-> 0, offset |-> 0 * WordSize, size |-> WordSize],
     [constantID |-> 1, offset |-> 1 * WordSize, size |-> WordSize],
     [constantID |-> 2, offset |-> 2 * WordSize, size |-> WordSize] >>

\* VkSpecializationInfo {mapEntryCount, pMapEntries, dataSize, pData}
SpecializationInfo(entries, data) ==
  [mapEntryCount |-> 3, pMapEntries |-> entries,
   dataSize |-> Len(data) * WordSize, pData |-> data]

\* The values the native API reads for constant id: the word of pData at the
\* offset of each of the first mapEntryCount entries that name id.
SpecializationConstant(info, id) ==
  { info.pData[(info.pMapEntries[i].offset \div WordSize) + 1] :
      i \in { j \in 1..info.mapEntryCount : info.pMapEntries[j].constantID = id } }

\* VkComputePipelineCreateInfo, with its VkPipelineShaderStageCreateInfo.
ComputePipelineCreateInfo(descriptor) ==
  [stage |-> [stage |-> "VK_SHADER_STAGE_COMPUTE_BIT",
              module |-> descriptor.shader_module,
              pName |-> "main",
              pSpecializationInfo |->
                SpecializationInfo(specialization_map_entires, descriptor.local_work_group)],
   layout |-> descriptor.pipeline_layout,
   basePipelineHandle |-> VK_NULL_HANDLE]

\* VkPipelineLayoutCreateInfo
PipelineLayoutCreateInfo(descriptor_layout) ==
  [setLayoutCount |-> 1, pSetLayouts |-> <<descriptor_layout>>, pushConstantRangeCount |-> 0]

\* The create info the constructor of this kind's Value builds from a key.
CreateInfo(key) ==
  IF kind = "layout" THEN PipelineLayoutCreateInfo(key) ELSE ComputePipelineCreateInfo(key)

\* The native object vkCreatePipelineLayout(device, info) /
\* vkCreateComputePipelines(device, pipeline_cache, 1, info) makes under handle h.
NativeObject(h, device, pipeline_cache, key) ==
  [handle |-> h, with |-> pipeline_cache, device |-> device, info |-> CreateInfo(key)]

----------------------------------------------------------------------------
(* Native API (environment) *)

AliveHandles == { o.handle : o \in alive }

\* Handle values vkCreate* may return: any value no live object carries.
FreeHandles == Handles \ AliveHandles

Sat(n) == IF n < 2 THEN n + 1 ELSE n

\* vkDestroyPipelineLayout / vkDestroyPipeline on each handle of hs.
AliveAfterDestroy(hs) == { o \in alive : o.handle \notin hs }
StaleAfterDestroy(hs) == IF hs \subseteq AliveHandles THEN staleDestroys ELSE Sat(staleDestroys)

----------------------------------------------------------------------------
(* Threads *)

\* The key field of a thread that is not inside retrieve(): not read; a filler of
\* the key type.
NoKey == CHOOSE k \in keys : TRUE
\* How often each handle has been passed to the native destroy (saturating).
NoCalls == [h \in Handles |-> 0]
NoValue == Value("none", VK_NULL_HANDLE)

Idle ==
  [pc |-> "idle", op |-> "none", c |-> "S", key |-> NoKey, it |-> End,
   tmp |-> NoValue, ret |-> VK_NULL_HANDLE, miss |-> FALSE, todo |-> {},
   clean |-> TRUE, start |-> {}, was |-> {}, calls |-> NoCalls, tries |-> 0]

\* The positions at which a thread is reading or changing cache_ of its cache.
SectionPcs == {"r_find", "r_create", "r_insert", "r_return", "p_clear", "m_body"}

InSection(u, c) == th[u].pc \in SectionPcs /\ th[u].c = c

\* Thread t moves to record r; its step changed cache_[c] under the feet of the
\* threads inside a section on c, whose record of what they saw is void from then on.
Disturb(t, r, c) ==
  [u \in Threads |->
     IF u = t THEN r
     ELSE IF InSection(u, c)
          THEN [th[u] EXCEPT !.clean = FALSE, !.start = {}, !.was = {}, !.calls = NoCalls]
     ELSE th[u]]

\* Free-standing handle objects: where each is in its lifetime, and its members.
ObjNames == {"lhs", "rhs", "other"}
Unborn == [state |-> "unborn", value |-> NoValue]
NoObjs == [o \in ObjNames |-> Unborn]
NoOp ==
  [op |-> "none", a |-> "lhs", b |-> "lhs", pre |-> NoObjs, was |-> {}, calls |-> {},
   run |-> 0, orig |-> NoObjs]

ZeroMade == [k \in keys |-> 0]
NoRets == [k \in keys |-> {}]
NonePurged == [k \in keys |-> VK_NULL_HANDLE]

----------------------------------------------------------------------------
(* Initial states *)

InitWith(ts, vs) ==
  /\ kind \in Kinds
  /\ keys \in KeyFamilies(kind, vs)
  /\ threads = ts
  /\ status = [c \in Caches |-> "unborn"]
  /\ device_ = [c \in Caches |-> Device]
  /\ pipeline_cache_ = [c \in Caches |-> VK_NULL_HANDLE]
  /\ cache_ = [c \in Caches |-> {}]
  /\ cache_mutex_ = [c \in Caches |-> NoThread]
  /\ th = [t \in Threads |-> Idle]
  /\ alive = {}
  /\ accel = [creates |-> 0, destroys |-> 0, seed |-> -1, handle |-> VK_NULL_HANDLE]
  /\ staleDestroys = 0
  /\ aborted = FALSE
  /\ made = [c \in Caches |-> ZeroMade]
  /\ rets = [c \in Caches |-> NoRets]
  /\ purged = [c \in Caches |-> NonePurged]
  /\ moved = {}
  /\ obj = NoObjs
  /\ last = NoOp

Init == InitWith(Threads, {})

----------------------------------------------------------------------------
(* Constructors *)

\* VK_CHECK(call): whether the call's result lets execution go on.  Any result
\* other than VK_SUCCESS is fatal: nothing of the program runs after it.
VK_CHECK(result) == result = "VK_SUCCESS"

\* VkPipelineCacheCreateInfo::initialDataSize
InitialDataSize == 0

\* PipelineLayoutCache(device) / ComputePipelineCache(device), for cache S.
CacheConstruct ==
  /\ ~aborted
  /\ status["S"] = "unborn"
  /\ IF kind = "layout"
     THEN /\ status' = [status EXCEPT !["S"] = "live"]
          /\ device_' = [device_ EXCEPT !["S"] = Device]
          /\ cache_' = [cache_ EXCEPT !["S"] = {}]
          /\ UNCHANGED <<pipeline_cache_, accel, aborted>>
     ELSE \E res \in VkResults, a \in AccelHandles :
            IF VK_CHECK(res)
            THEN /\ status' = [status EXCEPT !["S"] = "live"]
                 /\ device_' = [device_ EXCEPT !["S"] = Device]
                 /\ pipeline_cache_' = [pipeline_cache_ EXCEPT !["S"] = a]
                 /\ cache_' = [cache_ EXCEPT !["S"] = {}]
                 /\ accel' = [accel EXCEPT !.creates = Sat(@), !.seed = InitialDataSize,
                                           !.handle = a]
                 /\ UNCHANGED aborted
            ELSE /\ aborted' = TRUE
                 /\ UNCHANGED <<status, device_, pipeline_cache_, cache_, accel>>
  /\ UNCHANGED <<obj, last, kind, keys, threads, cache_mutex_, th, alive, staleDestroys, made,
                 rets, purged, moved>>

----------------------------------------------------------------------------
(* retrieve(key) *)

\* A caller enters retrieve(key) on a live cache.
RetrieveCall(t, c, k) ==
  /\ ~aborted
  /\ th[t].pc = "idle"
  /\ status[c] = "live"
  /\ th' = [th EXCEPT ![t] = [Idle EXCEPT !.pc = "r_lock", !.op = "retrieve",
                                          !.c = c, !.key = k]]
  /\ UNCHANGED <<obj, last, kind, keys, threads, status, device_, pipeline_cache_, cache_,
                 cache_mutex_, alive, accel, staleDestroys, aborted, made, rets,
                 purged, moved>>

\* Faulty variant, for sensitivity of the properties: retrieve() without the lock_guard.
RetrieveLockNoMutex(t) ==
  /\ ~aborted
  /\ th[t].pc = "r_lock"
  /\ th' = [th EXCEPT ![t].pc = "r_find", ![t].clean = TRUE]
  /\ UNCHANGED <<obj, last, kind, keys, threads, status, device_, pipeline_cache_, cache_,
                 cache_mutex_, alive, accel, staleDestroys, aborted, made, rets,
                 purged, moved>>

\* std::lock_guard<std::mutex> lock(cache_mutex_);
RetrieveLock(t) ==
  /\ ~aborted
  /\ th[t].pc = "r_lock"
  /\ cache_mutex_[th[t].c] = NoThread
  /\ cache_mutex_' = [cache_mutex_ EXCEPT ![th[t].c] = t]
  /\ th' = [th EXCEPT ![t].pc = "r_find", ![t].clean = TRUE]
  /\ UNCHANGED <<obj, last, kind, keys, threads, status, device_, pipeline_cache_, cache_,
                 alive, accel, staleDestroys, aborted, made, rets, purged, moved>>

\* Faulty variant, for sensitivity of the properties: retrieve() that constructs a new Value whatever find() returned.
RetrieveFindAlwaysCreates(t) ==
  /\ ~aborted
  /\ th[t].pc = "r_find"
  /\ th' = [th EXCEPT ![t].it = End, ![t].pc = "r_create"]
  /\ UNCHANGED <<obj, last, kind, keys, threads, status, device_, pipeline_cache_, cache_,
                 cache_mutex_, alive, accel, staleDestroys, aborted, made, rets,
                 purged, moved>>

\* auto it = cache_.find(key); if (cache_.cend() == it) ...
RetrieveFind(t) ==
  /\ ~aborted
  /\ th[t].pc = "r_find"
  /\ LET found == Find(th[t].c, th[t].key) IN
       IF found = {}
       THEN th' = [th EXCEPT ![t].it = End, ![t].pc = "r_create"]
       ELSE \E e \in found : th' = [th EXCEPT ![t].it = e, ![t].pc = "r_return"]
  /\ UNCHANGED <<obj, last, kind, keys, threads, status, device_, pipeline_cache_, cache_,
                 cache_mutex_, alive, accel, staleDestroys, aborted, made, rets,
                 purged, moved>>

\* The acceleration object handed to vkCreateComputePipelines (none for a layout).
CreateWith(c) == IF kind = "layout" THEN VK_NULL_HANDLE ELSE pipeline_cache_[c]

\* Faulty variant, for sensitivity of the properties: a creation that is tried again when the native call fails.
RetrieveCreateRetries(t) ==
  /\ ~aborted
  /\ th[t].pc = "r_create"
  /\ LET c == th[t].c IN
     \E res \in VkResults :
       IF VK_CHECK(res)
       THEN \E h \in FreeHandles :
              /\ alive' = alive \cup {NativeObject(h, device_[c], CreateWith(c), th[t].key)}
              /\ th' = [th EXCEPT ![t].tmp = Value(device_[c], h), ![t].miss = TRUE,
                                  ![t].tries = Sat(@), ![t].pc = "r_insert"]
              /\ made' = [made EXCEPT ![c][th[t].key] = Sat(@)]
       ELSE /\ th' = [th EXCEPT ![t].miss = TRUE, ![t].tries = Sat(@)]
            /\ UNCHANGED <<alive, made>>
  /\ UNCHANGED <<obj, last, kind, keys, threads, status, device_, pipeline_cache_, cache_,
                 cache_mutex_, accel, staleDestroys, aborted, rets, purged, moved>>

\* Value(device_, key) / Value(device_, key, pipeline_cache_): the native create call
\* under VK_CHECK, made while the lock is held.  When the check fails the call
\* never returns: no Value exists, nothing is inserted, the lock stays held.
RetrieveCreate(t) ==
  /\ ~aborted
  /\ th[t].pc = "r_create"
  /\ LET c == th[t].c IN
     \E res \in VkResults :
       IF VK_CHECK(res)
       THEN \E h \in FreeHandles :
              /\ alive' = alive \cup {NativeObject(h, device_[c], CreateWith(c), th[t].key)}
              /\ th' = [th EXCEPT ![t].tmp = Value(device_[c], h), ![t].miss = TRUE,
                                  ![t].tries = Sat(@), ![t].pc = "r_insert"]
              /\ made' = [made EXCEPT ![c][th[t].key] = Sat(@)]
              /\ UNCHANGED aborted
       ELSE /\ aborted' = TRUE
            /\ th' = [th EXCEPT ![t].miss = TRUE, ![t].tries = Sat(@), ![t].pc = "r_abort"]
            /\ UNCHANGED <<alive, made>>
  /\ UNCHANGED <<obj, last, kind, keys, threads, status, device_, pipeline_cache_, cache_,
                 cache_mutex_, accel, staleDestroys, rets, purged, moved>>

\* it = cache_.insert({key, Value(...)}).first: the temporary is moved into the
\* pair and the pair into the node; the moved-from temporaries are then destroyed.
\* insert() keeps an existing node with an equal key and destroys the new value.
RetrieveInsert(t) ==
  /\ ~aborted
  /\ th[t].pc = "r_insert"
  /\ LET c == th[t].c
         pair == HandleMove(th[t].tmp)
         node == HandleMove(pair.dst)
         existing == Find(c, th[t].key)
         new == [key |-> th[t].key, value |-> node.dst]
     IN
       IF existing = {}
       THEN LET calls == HandleDtorCalls(node.src) \cup HandleDtorCalls(pair.src) IN
            /\ cache_' = [cache_ EXCEPT ![c] = @ \cup {new}]
            /\ alive' = AliveAfterDestroy(calls)
            /\ staleDestroys' = StaleAfterDestroy(calls)
            /\ th' = Disturb(t, [th[t] EXCEPT !.it = new, !.tmp = NoValue,
                                              !.pc = "r_return"], c)
       ELSE \E e \in existing :
            LET calls == HandleDtorCalls(node.dst) \cup HandleDtorCalls(node.src)
                           \cup HandleDtorCalls(pair.src) IN
            /\ cache_' = cache_
            /\ alive' = AliveAfterDestroy(calls)
            /\ staleDestroys' = StaleAfterDestroy(calls)
            /\ th' = [th EXCEPT ![t].it = e, ![t].tmp = NoValue, ![t].pc = "r_return"]
  /\ UNCHANGED <<obj, last, kind, keys, threads, status, device_, pipeline_cache_,
                 cache_mutex_, accel, aborted, made, rets, purged, moved>>

\* it->second.handle(): the handle of the node, or anything at all when the node
\* has been freed in the meantime.
Deref(c, it) ==
  IF it \in cache_[c] THEN {it.value.handle_} ELSE Handles \cup {VK_NULL_HANDLE}

\* return it->second.handle(); the lock_guard releases cache_mutex_.
RetrieveReturn(t) ==
  /\ ~aborted
  /\ th[t].pc = "r_return"
  /\ LET c == th[t].c IN
     \E h \in Deref(c, th[t].it) :
       /\ rets' = IF th[t].clean THEN [rets EXCEPT ![c][th[t].key] = @ \cup {h}] ELSE rets
       /\ cache_mutex_' = [cache_mutex_ EXCEPT ![c] = NoThread]
       /\ th' = [th EXCEPT ![t].ret = h, ![t].it = End, ![t].pc = "r_ret"]
  /\ UNCHANGED <<obj, last, kind, keys, threads, status, device_, pipeline_cache_, cache_,
                 alive, accel, staleDestroys, aborted, made, purged, moved>>

\* The caller has the handle and goes on.
RetrieveDone(t) ==
  /\ ~aborted
  /\ th[t].pc = "r_ret"
  /\ th' = [th EXCEPT ![t] = Idle]
  /\ purged' = [purged EXCEPT ![th[t].c][th[t].key] = VK_NULL_HANDLE]
  /\ UNCHANGED <<obj, last, kind, keys, threads, status, device_, pipeline_cache_, cache_,
                 cache_mutex_, alive, accel, staleDestroys, aborted, made, rets, moved>>

----------------------------------------------------------------------------
(* purge() and the destructors *)

\* Whether purge() of this kind of cache takes cache_mutex_:
\* PipelineLayoutCache::purge does, ComputePipelineCache::purge does not.
PurgeTakesLock == kind = "layout"

\* A caller enters purge() on a live cache.
PurgeCall(t, c) ==
  /\ ~aborted
  /\ th[t].pc = "idle"
  /\ status[c] = "live"
  /\ th' = [th EXCEPT ![t] = [Idle EXCEPT !.pc = "p_lock", !.op = "purge", !.c = c]]
  /\ UNCHANGED <<obj, last, kind, keys, threads, status, device_, pipeline_cache_, cache_,
                 cache_mutex_, alive, accel, staleDestroys, aborted, made, rets,
                 purged, moved>>

\* Faulty variant, for sensitivity of the properties: a destructor that does not call purge() before its tail.
DtorCallSkipsPurge(t, c) ==
  /\ ~aborted
  /\ th[t].pc = "idle"
  /\ status[c] = "live"
  /\ \A u \in Threads \ {t} : th[u].pc = "idle" \/ th[u].c # c
  /\ status' = [status EXCEPT ![c] = "destroying"]
  /\ th' = [th EXCEPT ![t] = [Idle EXCEPT !.pc = "d_tail", !.op = "dtor", !.c = c]]
  /\ UNCHANGED <<obj, last, kind, keys, threads, device_, pipeline_cache_, cache_,
                 cache_mutex_, alive, accel, staleDestroys, aborted, made, rets,
                 purged, moved>>

\* ~PipelineLayoutCache / ~ComputePipelineCache begins: it calls purge().  An object
\* is destroyed once, by one thread, when no other call on it is in progress,
\* and no call on it begins from then on.
DtorCall(t, c) ==
  /\ ~aborted
  /\ th[t].pc = "idle"
  /\ status[c] = "live"
  /\ \A u \in Threads \ {t} : th[u].pc = "idle" \/ th[u].c # c
  /\ status' = [status EXCEPT ![c] = "destroying"]
  /\ th' = [th EXCEPT ![t] = [Idle EXCEPT !.pc = "p_lock", !.op = "dtor", !.c = c]]
  /\ UNCHANGED <<obj, last, kind, keys, threads, device_, pipeline_cache_, cache_,
                 cache_mutex_, alive, accel, staleDestroys, aborted, made, rets,
                 purged, moved>>

\* purge() up to the call of cache_.clear(): the lock_guard, where there is one.
\* clear() starts at the first node of the list as it is now.
PurgeLock(t) ==
  /\ ~aborted
  /\ th[t].pc = "p_lock"
  /\ LET c == th[t].c IN
       /\ IF PurgeTakesLock
          THEN /\ cache_mutex_[c] = NoThread
               /\ cache_mutex_' = [cache_mutex_ EXCEPT ![c] = t]
          ELSE UNCHANGED cache_mutex_
       /\ th' = [th EXCEPT ![t].pc = "p_clear", ![t].clean = TRUE,
                           ![t].todo = cache_[c], ![t].start = cache_[c],
                           ![t].was = alive]
  /\ UNCHANGED <<obj, last, kind, keys, threads, status, device_, pipeline_cache_, cache_,
                 alive, accel, staleDestroys, aborted, made, rets, purged, moved>>

\* What ~Value passes to the native destroy for node e of cache c.  A node that
\* another thread has already destroyed and freed is read after free: the handle
\* may read as cleared or as it was.
NodeDtorCalls(c, e) ==
  IF e \in cache_[c] THEN {HandleDtorCalls(e.value)} ELSE {{}, HandleDtorCalls(e.value)}

\* cache_.clear(), one node: the node's Value is destroyed and the node freed.
\* The walk meets the nodes that were linked when it began, and may or may not
\* meet a node another thread links in meanwhile.
PurgeStep(t) ==
  /\ ~aborted
  /\ th[t].pc = "p_clear"
  /\ LET c == th[t].c IN
     \E e \in th[t].todo \cup cache_[c] :
     \E calls \in NodeDtorCalls(c, e) :
       /\ alive' = AliveAfterDestroy(calls)
       /\ staleDestroys' = StaleAfterDestroy(calls)
       /\ cache_' = [cache_ EXCEPT ![c] = @ \ {e}]
       /\ th' = Disturb(t, [th[t] EXCEPT !.todo = @ \ {e},
                                         !.calls = [h \in Handles |->
                                                      IF h \in calls /\ th[t].clean
                                                      THEN Sat(@[h]) ELSE @[h]]], c)
       /\ made' = [made EXCEPT ![c] = ZeroMade]
       /\ rets' = [rets EXCEPT ![c] = NoRets]
       /\ purged' = [purged EXCEPT ![c][e.key] = e.value.handle_]
       /\ moved' = IF c = "D" THEN {} ELSE moved
  /\ UNCHANGED <<obj, last, kind, keys, threads, status, device_, pipeline_cache_,
                 cache_mutex_, accel, aborted>>

\* cache_.clear() ends: buckets, element count and list head are reset; purge()
\* returns, releasing the lock where it took one.
PurgeExit(t) ==
  /\ ~aborted
  /\ th[t].pc = "p_clear"
  /\ th[t].todo = {}
  /\ LET c == th[t].c IN
       /\ cache_' = [cache_ EXCEPT ![c] = {}]
       /\ cache_mutex_' = IF PurgeTakesLock THEN [cache_mutex_ EXCEPT ![c] = NoThread]
                          ELSE cache_mutex_
       /\ th' = Disturb(t, [th[t] EXCEPT !.pc = "p_ret"], c)
       /\ made' = [made EXCEPT ![c] = ZeroMade]
       /\ rets' = [rets EXCEPT ![c] = NoRets]
  /\ UNCHANGED <<obj, last, kind, keys, threads, status, device_, pipeline_cache_, alive,
                 accel, staleDestroys, aborted, purged, moved>>

\* purge() has returned: to its caller, or into the destructor that called it.
PurgeDone(t) ==
  /\ ~aborted
  /\ th[t].pc = "p_ret"
  /\ th' = [th EXCEPT ![t] = IF th[t].op = "dtor"
                             THEN [Idle EXCEPT !.pc = "d_tail", !.op = "dtor", !.c = th[t].c]
                             ELSE Idle]
  /\ UNCHANGED <<obj, last, kind, keys, threads, status, device_, pipeline_cache_, cache_,
                 cache_mutex_, alive, accel, staleDestroys, aborted, made, rets,
                 purged, moved>>

\* The rest of the destructor after purge(): ~PipelineLayoutCache has none;
\* ~ComputePipelineCache releases pipeline_cache_ unless it is VK_NULL_HANDLE.
DtorTail(t) ==
  /\ ~aborted
  /\ th[t].pc = "d_tail"
  /\ LET c == th[t].c IN
       /\ IF kind = "layout" \/ VK_NULL_HANDLE = pipeline_cache_[c]
          THEN UNCHANGED <<pipeline_cache_, accel>>
          ELSE /\ accel' = [accel EXCEPT !.destroys = Sat(@)]
               /\ pipeline_cache_' = [pipeline_cache_ EXCEPT ![c] = VK_NULL_HANDLE]
       /\ status' = [status EXCEPT ![c] = "destroyed"]
       /\ th' = [th EXCEPT ![t] = Idle]
  /\ UNCHANGED <<obj, last, kind, keys, threads, device_, cache_, cache_mutex_, alive,
                 staleDestroys, aborted, made, rets, purged, moved>>

----------------------------------------------------------------------------
(* Move construction of cache D from cache S *)

\* PipelineLayoutCache(PipelineLayoutCache&& other) /
\* ComputePipelineCache(ComputePipelineCache&& other): the member initialisers,
\* which read other.device_ and other.pipeline_cache_ before the lock is taken.
MoveCall(t) ==
  /\ ~aborted
  /\ th[t].pc = "idle"
  /\ status["S"] = "live"
  /\ status["D"] = "unborn"
  /\ status' = [status EXCEPT !["D"] = "constructing"]
  /\ cache_mutex_' = [cache_mutex_ EXCEPT !["D"] = NoThread]
  /\ device_' = [device_ EXCEPT !["D"] = device_["S"]]
  /\ pipeline_cache_' = IF kind = "layout" THEN pipeline_cache_
                        ELSE [pipeline_cache_ EXCEPT !["D"] = pipeline_cache_["S"]]
  /\ cache_' = [cache_ EXCEPT !["D"] = {}]
  /\ th' = [th EXCEPT ![t] = [Idle EXCEPT !.pc = "m_lock", !.op = "move", !.c = "S"]]
  /\ UNCHANGED <<obj, last, kind, keys, threads, alive, accel, staleDestroys, aborted, made,
                 rets, purged, moved>>

\* Faulty variant, for sensitivity of the properties: a move constructor without the lock_guard.
MoveLockNoMutex(t) ==
  /\ ~aborted
  /\ th[t].pc = "m_lock"
  /\ th' = [th EXCEPT ![t].pc = "m_body", ![t].clean = TRUE,
                      ![t].start = cache_["S"], ![t].was = alive]
  /\ UNCHANGED <<obj, last, kind, keys, threads, status, device_, pipeline_cache_, cache_,
                 cache_mutex_, alive, accel, staleDestroys, aborted, made, rets,
                 purged, moved>>

\* std::lock_guard<std::mutex> lock(other.cache_mutex_);
MoveLock(t) ==
  /\ ~aborted
  /\ th[t].pc = "m_lock"
  /\ cache_mutex_["S"] = NoThread
  /\ cache_mutex_' = [cache_mutex_ EXCEPT !["S"] = t]
  /\ th' = [th EXCEPT ![t].pc = "m_body", ![t].clean = TRUE,
                      ![t].start = cache_["S"], ![t].was = alive]
  /\ UNCHANGED <<obj, last, kind, keys, threads, status, device_, pipeline_cache_, cache_,
                 alive, accel, staleDestroys, aborted, made, rets, purged, moved>>

\* Faulty variant, for sensitivity of the properties: a move constructor that leaves the nodes in other.cache_ as well.
MoveBodyCopies(t) ==
  /\ ~aborted
  /\ th[t].pc = "m_body"
  /\ cache_' = [cache_ EXCEPT !["D"] = cache_["S"]]
  /\ pipeline_cache_' = IF kind = "layout" THEN pipeline_cache_
                        ELSE [pipeline_cache_ EXCEPT !["S"] = VK_NULL_HANDLE]
  /\ cache_mutex_' = [cache_mutex_ EXCEPT !["S"] = NoThread]
  /\ status' = [status EXCEPT !["D"] = "live"]
  /\ th' = Disturb(t, [th[t] EXCEPT !.pc = "m_ret"], "S")
  /\ made' = [c \in Caches |-> ZeroMade]
  /\ rets' = [c \in Caches |-> NoRets]
  /\ moved' = { <<e.key, e.value.handle_>> : e \in cache_["S"] }
  /\ UNCHANGED <<obj, last, kind, keys, threads, device_, alive, accel, staleDestroys, aborted,
                 purged>>

\* Faulty variant, for sensitivity of the properties: a move constructor that leaves other.pipeline_cache_ as it is.
MoveBodyKeepsAccel(t) ==
  /\ ~aborted
  /\ th[t].pc = "m_body"
  /\ LET calls == UNION { HandleDtorCalls(e.value) : e \in cache_["D"] } IN
       /\ alive' = AliveAfterDestroy(calls)
       /\ staleDestroys' = StaleAfterDestroy(calls)
  /\ cache_' = [cache_ EXCEPT !["D"] = cache_["S"], !["S"] = {}]
  /\ pipeline_cache_' = pipeline_cache_
  /\ cache_mutex_' = [cache_mutex_ EXCEPT !["S"] = NoThread]
  /\ status' = [status EXCEPT !["D"] = "live"]
  /\ th' = Disturb(t, [th[t] EXCEPT !.pc = "m_ret"], "S")
  /\ made' = [c \in Caches |-> ZeroMade]
  /\ rets' = [c \in Caches |-> NoRets]
  /\ moved' = { <<e.key, e.value.handle_>> : e \in cache_["S"] }
  /\ UNCHANGED <<obj, last, kind, keys, threads, device_, accel, aborted, purged>>

\* cache_ = std::move(other.cache_): the nodes D held are destroyed, D takes the
\* nodes of S and S is left empty; other.pipeline_cache_ = VK_NULL_HANDLE
\* (ComputePipelineCache); the lock on S is released.
MoveBody(t) ==
  /\ ~aborted
  /\ th[t].pc = "m_body"
  /\ LET calls == UNION { HandleDtorCalls(e.value) : e \in cache_["D"] } IN
       /\ alive' = AliveAfterDestroy(calls)
       /\ staleDestroys' = StaleAfterDestroy(calls)
  /\ cache_' = [cache_ EXCEPT !["D"] = cache_["S"], !["S"] = {}]
  /\ pipeline_cache_' = IF kind = "layout" THEN pipeline_cache_
                        ELSE [pipeline_cache_ EXCEPT !["S"] = VK_NULL_HANDLE]
  /\ cache_mutex_' = [cache_mutex_ EXCEPT !["S"] = NoThread]
  /\ status' = [status EXCEPT !["D"] = "live"]
  /\ th' = Disturb(t, [th[t] EXCEPT !.pc = "m_ret"], "S")
  /\ made' = [c \in Caches |-> ZeroMade]
  /\ rets' = [c \in Caches |-> NoRets]
  /\ moved' = { <<e.key, e.value.handle_>> : e \in cache_["S"] }
  /\ UNCHANGED <<obj, last, kind, keys, threads, device_, accel, aborted, purged>>

\* The move constructor has returned: D is in its owner's hands.
MoveDone(t) ==
  /\ ~aborted
  /\ th[t].pc = "m_ret"
  /\ th' = [th EXCEPT ![t] = Idle]
  /\ UNCHANGED <<obj, last, kind, keys, threads, status, device_, pipeline_cache_, cache_,
                 cache_mutex_, alive, accel, staleDestroys, aborted, made, rets,
                 purged, moved>>

----------------------------------------------------------------------------
(* Free-standing handle objects: construction, move, swap, destruction *)

\* PipelineLayout(device, descriptor_layout) /
\* ComputePipeline(device, descriptor, pipeline_cache): handle_ starts as
\* VK_NULL_HANDLE and the native create call, under VK_CHECK, writes it.
ObjConstruct(o, d, k) ==
  /\ ~aborted
  /\ obj[o].state = "unborn"
  /\ \E res \in VkResults :
       IF VK_CHECK(res)
       THEN \E h \in FreeHandles :
              /\ alive' = alive \cup {NativeObject(h, d, VK_NULL_HANDLE, k)}
              /\ obj' = [obj EXCEPT ![o] = [state |-> "live", value |-> Value(d, h)]]
              /\ last' = [NoOp EXCEPT !.op = "construct", !.a = o, !.b = o, !.pre = obj,
                                      !.was = alive]
              /\ UNCHANGED aborted
       ELSE /\ aborted' = TRUE
            /\ UNCHANGED <<alive, obj, last>>
  /\ UNCHANGED <<kind, keys, threads, status, device_, pipeline_cache_, cache_,
                 cache_mutex_, th, accel, staleDestroys, made, rets, purged, moved>>

\* PipelineLayout(PipelineLayout&& other) / ComputePipeline(ComputePipeline&& other)
ObjMove(dst, other) ==
  /\ ~aborted
  /\ dst # other
  /\ obj[dst].state = "unborn"
  /\ obj[other].state \in {"live", "moved"}
  /\ LET m == HandleMove(obj[other].value) IN
       obj' = [obj EXCEPT ![dst] = [state |-> "live", value |-> m.dst],
                          ![other] = [state |-> "moved", value |-> m.src]]
  /\ last' = [NoOp EXCEPT !.op = "move", !.a = dst, !.b = other, !.pre = obj,
                          !.was = alive]
  /\ UNCHANGED <<kind, keys, threads, status, device_, pipeline_cache_, cache_,
                 cache_mutex_, th, alive, accel, staleDestroys, aborted, made, rets,
                 purged, moved>>

\* swap(lhs, rhs) on two objects within their lifetime.
ObjSwap(l, r) ==
  /\ ~aborted
  /\ l # r
  /\ obj[l].state \in {"live", "moved"}
  /\ obj[r].state \in {"live", "moved"}
  /\ LET s == swap(obj[l].value, obj[r].value)
         again == last.op = "swap" /\ last.run = 1 /\ {last.a, last.b} = {l, r}
     IN
       /\ obj' = [obj EXCEPT ![l] = [state |-> obj[r].state, value |-> s.lhs],
                             ![r] = [state |-> obj[l].state, value |-> s.rhs]]
       /\ last' = [NoOp EXCEPT !.op = "swap", !.a = l, !.b = r, !.pre = obj,
                               !.was = alive,
                               !.run = IF again THEN 2 ELSE 1,
                               !.orig = IF again THEN last.pre ELSE obj]
  /\ UNCHANGED <<kind, keys, threads, status, device_, pipeline_cache_, cache_,
                 cache_mutex_, th, alive, accel, staleDestroys, aborted, made, rets,
                 purged, moved>>

\* ~PipelineLayout() / ~ComputePipeline(), also when run on an object that was
\* moved from or whose destructor has run before.
ObjDestroy(o) ==
  /\ ~aborted
  /\ obj[o].state \in {"live", "moved", "destroyed"}
  /\ LET v == obj[o].value
         calls == HandleDtorCalls(v)
     IN
       /\ alive' = AliveAfterDestroy(calls)
       /\ staleDestroys' = StaleAfterDestroy(calls)
       /\ obj' = [obj EXCEPT ![o] = [state |-> "destroyed", value |-> HandleDtor(v)]]
       /\ last' = [NoOp EXCEPT !.op = "dtor", !.a = o, !.b = o, !.pre = obj,
                               !.was = alive,
                               !.calls = { <<v.device_, h>> : h \in calls }]
  /\ UNCHANGED <<kind, keys, threads, status, device_, pipeline_cache_, cache_,
                 cache_mutex_, th, accel, aborted, made, rets, purged, moved>>

----------------------------------------------------------------------------
(* Specifications *)

Next ==
  \/ CacheConstruct
  \/ \E t \in threads, c \in Caches, k \in keys : RetrieveCall(t, c, k)
  \/ \E t \in threads : RetrieveLock(t)
  \/ \E t \in threads : RetrieveFind(t)
  \/ \E t \in threads : RetrieveCreate(t)
  \/ \E t \in threads : RetrieveInsert(t)
  \/ \E t \in threads : RetrieveReturn(t)
  \/ \E t \in threads : RetrieveDone(t)
  \/ \E t \in threads, c \in Caches : PurgeCall(t, c)
  \/ \E t \in threads, c \in Caches : DtorCall(t, c)
  \/ \E t \in threads : PurgeLock(t)
  \/ \E t \in threads : PurgeStep(t)
  \/ \E t \in threads : PurgeExit(t)
  \/ \E t \in threads : PurgeDone(t)
  \/ \E t \in threads : DtorTail(t)

\* The threads of Threads call retrieve(), purge() and the destructor on the
\* shared cache S concurrently.
Spec == Init /\ [][Next]_vars

NextSeq ==
  \/ Next
  \/ \E t \in threads : MoveCall(t)
  \/ \E t \in threads : MoveLock(t)
  \/ \E t \in threads : MoveBody(t)
  \/ \E t \in threads : MoveDone(t)

\* One caller: every call, move construction included, runs to its end before
\* the next begins.
InitSeq == InitWith({"t1"}, Variants)
SpecSeq == InitSeq /\ [][NextSeq]_vars

NextMove ==
  \/ CacheConstruct
  \/ \E t \in threads, c \in Caches, k \in keys : RetrieveCall(t, c, k)
  \/ \E t \in threads : RetrieveLock(t)
  \/ \E t \in threads : RetrieveFind(t)
  \/ \E t \in threads : RetrieveCreate(t)
  \/ \E t \in threads : RetrieveInsert(t)
  \/ \E t \in threads : RetrieveReturn(t)
  \/ \E t \in threads : RetrieveDone(t)
  \/ \E t \in threads : MoveCall(t)
  \/ \E t \in threads : MoveLock(t)
  \/ \E t \in threads : MoveBody(t)
  \/ \E t \in threads : MoveDone(t)

\* One thread move-constructs D from S while the threads call retrieve() on S;
\* D takes calls once its constructor has filled it.
InitMove == InitWith(Threads, {Descriptor(1, 1, 16, 8, 1)})
SpecMove == InitMove /\ [][NextMove]_vars

NextLive ==
  \/ CacheConstruct
  \/ \E t \in threads, c \in Caches, k \in keys : RetrieveCall(t, c, k)
  \/ \E t \in threads : RetrieveLock(t)
  \/ \E t \in threads : RetrieveFind(t)
  \/ \E t \in threads : RetrieveCreate(t)
  \/ \E t \in threads : RetrieveInsert(t)
  \/ \E t \in threads : RetrieveReturn(t)
  \/ \E t \in threads : RetrieveDone(t)
  \/ \E t \in threads, c \in Caches : PurgeCall(t, c)
  \/ \E t \in threads : PurgeLock(t)
  \/ \E t \in threads : PurgeStep(t)
  \/ \E t \in threads : PurgeExit(t)
  \/ \E t \in threads : PurgeDone(t)

\* Fair scheduling: a thread inside a call that can take its next step takes it,
\* and a thread that can take the mutex again and again does take it; native
\* calls return.  Nothing obliges a thread to make a call.
Fairness ==
  \A t \in Threads :
    /\ SF_vars(RetrieveLock(t))
    /\ WF_vars(RetrieveFind(t))
    /\ WF_vars(RetrieveCreate(t))
    /\ WF_vars(RetrieveInsert(t))
    /\ WF_vars(RetrieveReturn(t))
    /\ WF_vars(RetrieveDone(t))
    /\ SF_vars(PurgeLock(t))
    /\ WF_vars(PurgeStep(t))
    /\ WF_vars(PurgeExit(t))
    /\ WF_vars(PurgeDone(t))

\* The threads call retrieve() and purge() on the shared cache S, two keys in
\* use, under fair scheduling.
InitLive == InitWith(Threads, {Descriptor(1, 1, 16, 8, 1)})
SpecLive == InitLive /\ [][NextLive]_vars /\ Fairness

NextHandle ==
  \/ \E o \in ObjNames, d \in Devices, k \in keys : ObjConstruct(o, d, k)
  \/ \E dst, other \in ObjNames : ObjMove(dst, other)
  \/ \E l, r \in ObjNames : ObjSwap(l, r)
  \/ \E o \in ObjNames : ObjDestroy(o)

\* Handle objects of one type, on their own: constructed, moved, swapped and
\* destroyed in any order by one caller.
InitHandle == InitWith({"t1"}, {})
SpecHandle == InitHandle /\ [][NextHandle]_vars

----------------------------------------------------------------------------
(* Properties *)

\* Native creations behind the node of key k in cache c: those retrieve() made
\* on c, and the one made on S for a node that D received by the move.
Created(c, k) ==
  made[c][k] + (IF c = "D" /\ \E h \in Handles : <<k, h>> \in moved THEN 1 ELSE 0)

\* C1: on one cache, with no purge, move or destruction in between, all
\* retrieve calls with equal keys return one and the same handle, and exactly
\* one native creation stands behind it: the first call missed, the later ones hit.
C1_EqualKeysOneHandleOneCreation ==
  \A c \in Caches : \A k \in keys :
    /\ Cardinality(rets[c][k]) <= 1
    /\ made[c][k] <= 1
    /\ rets[c][k] # {} => /\ Created(c, k) = 1
                          /\ VK_NULL_HANDLE \notin rets[c][k]

\* C1 witness: a ComputePipelineCache retrieve that hit, returning the handle
\* the one creation for its key produced.
C1_Witness ==
  \E t \in threads :
    /\ kind = "compute"
    /\ th[t].pc = "r_ret" /\ ~th[t].miss
    /\ made[th[t].c][th[t].key] = 1
    /\ rets[th[t].c][th[t].key] = {th[t].ret}

\* C2: concurrent retrieve(k) calls of several threads on one cache, none of them
\* overlapped by a purge, make one native creation between them and all return
\* the same handle; their critical sections never overlap.
C2_ConcurrentRetrieveCreatesOnce ==
  /\ \A k \in keys : made["S"][k] <= 1 /\ Cardinality(rets["S"][k]) <= 1
  /\ \A t, u \in threads :
       (t # u /\ th[t].op = "retrieve" /\ th[u].op = "retrieve" /\ th[t].c = th[u].c)
         => ~(th[t].pc \in SectionPcs /\ th[u].pc \in SectionPcs)

\* C2 witness: two threads have both just returned from retrieve(k) for the same
\* key, one after a miss and one after a hit, with the same handle.
C2_Witness ==
  \E t, u \in threads :
    /\ t # u
    /\ th[t].pc = "r_ret" /\ th[u].pc = "r_ret"
    /\ th[t].key = th[u].key
    /\ th[t].miss /\ ~th[u].miss
    /\ th[t].ret = th[u].ret
    /\ rets["S"][th[t].key] = {th[t].ret}

\* C3 (as claimed): purge() never walks or clears cache_ while another thread is
\* inside the critical section of retrieve() on the same cache, and two purges
\* never clear the same cache at the same time.
C3_PurgeExcludesRetrieveAndPurge ==
  \A t, u \in threads :
    (t # u /\ th[t].c = th[u].c /\ th[t].pc = "p_clear") => th[u].pc \notin SectionPcs


\* C4: two keys that differ in exactly one field (every family of keys is such a
\* pair), both retrieved on one cache with no purge in between, have distinct
\* handles and two native creations stand behind them.
C4_DistinctKeysDistinctHandles ==
  \A c \in Caches : \A k1, k2 \in keys :
    (k1 # k2 /\ rets[c][k1] # {} /\ rets[c][k2] # {})
      => /\ rets[c][k1] \cap rets[c][k2] = {}
         /\ Created(c, k1) + Created(c, k2) = 2
         /\ \A e1, e2 \in cache_[c] : e1.key # e2.key => e1.value.handle_ # e2.value.handle_

\* C4 witness: both keys of a pair that differs in the z component of the launch
\* geometry only have been retrieved on S.
C4_Witness ==
  /\ kind = "compute"
  /\ Descriptor(1, 1, 8, 8, 2) \in keys
  /\ \A k \in keys : rets["S"][k] # {} /\ made["S"][k] = 1

\* C5 (as claimed): the first retrieve(k) after a purge that destroyed the node of
\* k creates anew and returns a handle different from the one destroyed.
C5_NewHandleDiffersAfterPurge ==
  \A t \in threads :
    (th[t].pc = "r_ret" /\ purged[th[t].c][th[t].key] # VK_NULL_HANDLE)
      => (th[t].miss /\ th[t].ret # purged[th[t].c][th[t].key])

\* C5 (amended): the first retrieve(k) after a purge that destroyed the node of k
\* is a miss: it makes a new native creation and returns the handle of the new,
\* live object, which is the one now resident for k.
C5_NewCreationAfterPurge ==
  \A t \in threads :
    (th[t].pc = "r_ret" /\ purged[th[t].c][th[t].key] # VK_NULL_HANDLE)
      => /\ th[t].miss
         /\ th[t].ret # VK_NULL_HANDLE
         /\ th[t].ret \in AliveHandles
         /\ made[th[t].c][th[t].key] = 1
         /\ [key |-> th[t].key, value |-> Value(device_[th[t].c], th[t].ret)]
              \in cache_[th[t].c]

\* C5 witness: a retrieve after a purge has returned a handle whose value differs
\* from the pre-purge one.
C5_Witness ==
  \E t \in threads :
    /\ th[t].pc = "r_ret" /\ th[t].miss
    /\ purged[th[t].c][th[t].key] # VK_NULL_HANDLE
    /\ th[t].ret # purged[th[t].c][th[t].key]

\* C6: after D is move-constructed from S, S is empty, D holds exactly the nodes
\* S held, the move made no native create or destroy call, and retrieve(k) on D
\* for a key S held returns the handle S held for it, without a native creation.
C6_MoveTransfersEntries ==
  \A t \in threads :
    /\ th[t].pc = "m_ret"
         => /\ cache_["S"] = {}
            /\ cache_["D"] = th[t].start
            /\ alive = th[t].was
            /\ staleDestroys = 0
    /\ (th[t].pc = "r_ret" /\ th[t].c = "D"
          /\ \E h \in Handles : <<th[t].key, h>> \in moved)
         => /\ <<th[t].key, th[t].ret>> \in moved
            /\ ~th[t].miss
            /\ made["D"][th[t].key] = 0
            /\ th[t].ret \in AliveHandles

\* C6 witness: S held both keys when it was moved from, and a retrieve on D has
\* returned the handle S held.
C6_Witness ==
  \E t \in threads :
    /\ th[t].pc = "r_ret" /\ th[t].c = "D"
    /\ Cardinality(moved) = 2
    /\ <<th[t].key, th[t].ret>> \in moved


\* The cache that holds the acceleration object S was constructed with.
AccelHolder == IF status["D"] \in {"live", "destroying", "destroyed"} THEN "D" ELSE "S"

\* C7: a ComputePipelineCache creates its acceleration object once, in its
\* constructor and without seed data, and releases it once, in the destructor of
\* the cache that holds it, after purge() has destroyed every resident pipeline:
\* no pipeline created with the acceleration object is alive when it is released.
C7_AccelCreatedOnceReleasedLast ==
  kind = "compute" =>
    /\ accel.creates = (IF status["S"] = "unborn" THEN 0 ELSE 1)
    /\ status["S"] # "unborn" => accel.seed = InitialDataSize
    /\ accel.destroys <= 1
    /\ accel.destroys = 1 <=> status[AccelHolder] = "destroyed"
    /\ accel.destroys = 1 => \A o \in alive : o.with # accel.handle
    /\ \A t \in threads :
         (th[t].pc = "d_tail" /\ pipeline_cache_[th[t].c] # VK_NULL_HANDLE)
           => /\ cache_[th[t].c] = {}
              /\ \A o \in alive : o.with # pipeline_cache_[th[t].c]

\* C7 witness: the acceleration object has been released by the destructor of a
\* cache whose two pipelines were destroyed before it.
C7_Witness ==
  /\ kind = "compute"
  /\ accel.destroys = 1
  /\ status["S"] = "destroyed"
  /\ \A k \in keys : purged["S"][k] # VK_NULL_HANDLE

\* C8 (as claimed): no native pipeline layout or compute pipeline is passed to
\* its native destroy call a second time, in any interleaving.
C8_NoDoubleRelease == staleDestroys = 0

\* The handles held by a set of nodes.
HandlesOf(nodes) == { e.value.handle_ : e \in nodes }

\* C9: when purge() returns (called directly or by the destructor), cache_ is
\* empty and each native object that was resident when it began has been passed
\* to the native destroy exactly once, and nothing else has: purging an empty
\* cache makes no native call.  A destroyed cache holds no node.
C9_PurgeDestroysEveryResident ==
  /\ \A t \in threads :
       th[t].pc = "p_ret"
         => /\ cache_[th[t].c] = {}
            /\ \A h \in Handles :
                 th[t].calls[h] = (IF h \in HandlesOf(th[t].start) THEN 1 ELSE 0)
            /\ alive = { o \in th[t].was : o.handle \notin HandlesOf(th[t].start) }
            /\ staleDestroys = 0
  /\ \A c \in Caches : status[c] = "destroyed" => cache_[c] = {}

\* C9 witness: a purge() of a cache with two resident nodes has returned.
C9_Witness ==
  \E t \in threads :
    /\ th[t].pc = "p_ret"
    /\ Cardinality(th[t].start) = 2
    /\ \A h \in HandlesOf(th[t].start) : th[t].calls[h] = 1

\* C10 (as claimed): while a thread is inside retrieve() on a miss, from the
\* native creation call until it has inserted its node and read the handle, no
\* other thread is reading or changing cache_ of the same cache.
C10_MissSerialisesAllOperations ==
  \A t, u \in threads :
    (/\ t # u
     /\ th[t].c = th[u].c
     /\ th[t].pc = "r_create" \/ (th[t].miss /\ th[t].pc \in {"r_insert", "r_return"}))
      => th[u].pc \notin SectionPcs

----------------------------------------------------------------------------
(* Frame of retrieve() *)

\* The nodes resident in the caches.
Resident == UNION { cache_[c] : c \in Caches }

\* C11: a handle retrieve() returns is that of a resident node whose native
\* object is alive, and stays so until a purge or destruction of the cache that
\* holds the node: retrieve() never destroys or replaces a node; a hit makes no
\* native call and leaves every cache_ as it is; a miss makes one native create,
\* no native destroy, and adds the one node for its key, leaving the others
\* alone; a node stops being resident, and a native object stops being alive,
\* only while purge() (called directly or by the destructor) is clearing.
C11_RetrieveKeepsResidentEntries ==
  /\ [](\A e \in Resident : e.value.handle_ \in AliveHandles)
  /\ [](\A t \in threads :
          th[t].pc = "r_ret"
            => /\ th[t].ret # VK_NULL_HANDLE
               /\ th[t].ret \in AliveHandles
               /\ [key |-> th[t].key, value |-> Value(device_[th[t].c], th[t].ret)]
                    \in cache_[th[t].c])
  /\ [][ /\ \A t \in threads :
              (th'[t].pc # th[t].pc /\ (th[t].op = "retrieve" \/ th'[t].op = "retrieve"))
                => LET c == IF th[t].op = "retrieve" THEN th[t].c ELSE th'[t].c IN
                   /\ \A d \in Caches : cache_[d] \subseteq cache_'[d]
                   /\ \A d \in Caches \ {c} : cache_'[d] = cache_[d]
                   /\ alive \subseteq alive'
                   /\ staleDestroys' = staleDestroys
                   /\ th[t].pc = "r_find"
                        => (th'[t].pc = "r_return" <=> \E e \in cache_[c] : e.key = th[t].key)
                   /\ IF th[t].pc = "r_create" /\ ~aborted'
                      THEN /\ Cardinality(alive' \ alive) = 1
                           /\ cache_' = cache_
                      ELSE IF th[t].pc = "r_insert"
                      THEN /\ alive' = alive
                           /\ cache_'[c] \ cache_[c] = {[key |-> th[t].key, value |-> th[t].tmp]}
                      ELSE /\ alive' = alive
                           /\ cache_' = cache_
         /\ (Resident \ Resident' # {} \/ alive \ alive' # {})
              => \E t \in threads : th[t].pc = "p_clear"
     ]_vars

\* C11 witness: a retrieve that missed has returned, its node added next to the
\* node that was resident before.
C11_Witness ==
  \E t \in threads :
    /\ th[t].pc = "r_ret" /\ th[t].miss
    /\ Cardinality(cache_[th[t].c]) = 2
    /\ \A e \in cache_[th[t].c] : e.value.handle_ \in AliveHandles

----------------------------------------------------------------------------
(* Failure of a native creation *)

\* C12: when the native create call of a retrieve(k) that missed fails, the call
\* ends there, in the fatal outcome: the create was invoked once, no handle is
\* returned, no node for k is inserted, the nodes that were resident and their
\* native objects are as they were, and no step of the program follows.  A call
\* that goes on past its creation has invoked the native create once.
C12_CreationFailureIsFatalAndClean ==
  /\ [](\A t \in threads :
          /\ th[t].tries <= 1
          /\ th[t].pc \in {"r_insert", "r_return", "r_ret"} /\ th[t].miss => th[t].tries = 1
          /\ th[t].pc = "r_abort"
               => /\ aborted
                  /\ th[t].tries = 1
                  /\ th[t].ret = VK_NULL_HANDLE
                  /\ th[t].tmp = NoValue
                  /\ \A e \in cache_[th[t].c] : ~KeyEq(e.key, th[t].key))
  /\ [][ /\ ~aborted
         /\ \A t \in threads :
              th[t].pc = "r_create"
                => \/ th'[t].pc = "r_insert" /\ ~aborted'
                   \/ /\ th'[t].pc = "r_abort" /\ aborted'
                      /\ UNCHANGED <<cache_, alive, staleDestroys, made, rets, purged,
                                     moved, pipeline_cache_, status>>
     ]_vars

\* C12 witness: a creation has failed in a retrieve on a cache that held a node
\* for another key.
C12_Witness ==
  \E t \in threads :
    /\ th[t].pc = "r_abort"
    /\ cache_[th[t].c] # {}
    /\ \A e \in cache_[th[t].c] : e.value.handle_ \in AliveHandles

----------------------------------------------------------------------------
(* Handle objects *)

\* C13: for both handle types, move construction gives the destination the
\* device and native handle of the source and leaves the source with
\* VK_NULL_HANDLE, without a native call; the destructor passes the handle to
\* the native destroy, with the object's device, exactly when it is not
\* VK_NULL_HANDLE, and leaves VK_NULL_HANDLE behind, so that the destructor of a
\* moved-from or already destroyed object releases nothing.
C13_HandleMoveAndDestroy ==
  /\ staleDestroys = 0
  /\ last.op = "move"
       => /\ obj[last.a].value = last.pre[last.b].value
          /\ obj[last.b].value.handle_ = VK_NULL_HANDLE
          /\ alive = last.was
          /\ last.calls = {}
  /\ last.op = "dtor"
       => LET v == last.pre[last.a].value IN
          /\ last.calls = (IF v.handle_ = VK_NULL_HANDLE THEN {}
                           ELSE {<<v.device_, v.handle_>>})
          /\ \A call \in last.calls :
               \E o \in last.was : o.device = call[1] /\ o.handle = call[2]
          /\ alive = { o \in last.was : \A call \in last.calls : o.handle # call[2] }
          /\ obj[last.a].value.handle_ = VK_NULL_HANDLE
          /\ last.pre[last.a].state \in {"moved", "destroyed"}
               => (last.calls = {} /\ alive = last.was)

\* C13 witness: the destructor has run on a moved-from object while the object
\* that took its handle is alive.
C13_Witness ==
  /\ last.op = "dtor"
  /\ last.pre[last.a].state = "moved"
  /\ \E o \in ObjNames : obj[o].state = "live" /\ obj[o].value.handle_ \in AliveHandles

\* C14: swap(lhs, rhs) leaves lhs with the device and native handle rhs had and
\* rhs with those lhs had, also when one of them holds VK_NULL_HANDLE, touches
\* no other object and makes no native call; a second swap of the same two
\* objects brings back what was there before the first.
C14_SwapExchangesBoth ==
  last.op = "swap"
    => /\ obj[last.a].value = last.pre[last.b].value
       /\ obj[last.b].value = last.pre[last.a].value
       /\ \A o \in ObjNames \ {last.a, last.b} : obj[o] = last.pre[o]
       /\ alive = last.was
       /\ last.calls = {}
       /\ staleDestroys = 0
       /\ last.run = 2 => \A o \in ObjNames : obj[o].value = last.orig[o].value

\* C14 witness: two objects on different devices, one of them empty, have been
\* swapped twice.
C14_Witness ==
  /\ last.op = "swap"
  /\ last.run = 2
  /\ obj[last.a].value.device_ # obj[last.b].value.device_
  /\ obj[last.a].value.handle_ = VK_NULL_HANDLE
  /\ obj[last.b].value.handle_ \in AliveHandles

----------------------------------------------------------------------------
(* What a miss creates *)

\* C15: the pipeline ComputePipelineCache::retrieve(key) creates on a miss is
\* made by one native call that receives the cache's device_ and
\* pipeline_cache_, with key.pipeline_layout as layout, one compute stage of
\* key.shader_module at entry "main", no base pipeline, and specialization
\* constants 0, 1, 2 reading the x, y, z words of key.local_work_group.
C15_MissCreatesFromKey ==
  kind = "compute" =>
    \A t \in threads :
      (th[t].pc \in {"r_insert", "r_return", "r_ret"} /\ th[t].miss)
        => LET h == IF th[t].pc = "r_insert" THEN th[t].tmp.handle_
                    ELSE IF th[t].pc = "r_return" THEN th[t].it.value.handle_
                    ELSE th[t].ret
               key == th[t].key
               made_ == { o \in alive : o.handle = h }
           IN
             /\ Cardinality(made_) = 1
             /\ \A o \in made_ :
                  /\ o.device = device_[th[t].c]
                  /\ o.with = pipeline_cache_[th[t].c]
                  /\ o.info.layout = key.pipeline_layout
                  /\ o.info.basePipelineHandle = VK_NULL_HANDLE
                  /\ o.info.stage.stage = "VK_SHADER_STAGE_COMPUTE_BIT"
                  /\ o.info.stage.module = key.shader_module
                  /\ o.info.stage.pName = "main"
                  /\ \A i \in 0..2 :
                       SpecializationConstant(o.info.stage.pSpecializationInfo, i)
                         = {key.local_work_group[i + 1]}
                  /\ SpecializationConstant(o.info.stage.pSpecializationInfo, 3) = {}

\* C15 witness: a miss for a key whose x, y and z all differ has returned, on a
\* cache that holds its acceleration object.
C15_Witness ==
  \E t \in threads :
    /\ kind = "compute"
    /\ th[t].pc = "r_ret" /\ th[t].miss
    /\ th[t].key.local_work_group = <<8, 16, 1>>
    /\ pipeline_cache_[th[t].c] # VK_NULL_HANDLE
    /\ th[t].ret \in AliveHandles

----------------------------------------------------------------------------
(* Resource accounting *)

\* No call on a cache is in progress.
Quiescent == \A t \in threads : th[t].pc = "idle"

\* The nodes of the caches that hold native object o.
Holders(o) == { <<c, e>> \in Caches \X Resident : e \in cache_[c] /\ e.value.handle_ = o.handle }

\* C16 (as claimed): whenever no call is in progress, the native objects that
\* are alive are exactly those whose handles the nodes of the caches hold, each
\* held by one node of one cache, and no node holds VK_NULL_HANDLE; a destroyed
\* cache holds no node, so every object it held has been released.
C16_AliveIsResident ==
  Quiescent =>
    /\ AliveHandles = HandlesOf(Resident)
    /\ \A o \in alive : Cardinality(Holders(o)) = 1
    /\ VK_NULL_HANDLE \notin HandlesOf(Resident)
    /\ \A c \in Caches : status[c] = "destroyed" => cache_[c] = {}
    /\ (\A c \in Caches : status[c] \in {"unborn", "destroyed"}) => alive = {}

----------------------------------------------------------------------------
(* The acceleration object across a move *)

\* C17: once ComputePipelineCache D has been move-constructed from S, D holds
\* the acceleration object S held and S holds VK_NULL_HANDLE; whatever is then
\* called on S and D, the acceleration object is released at most once, and
\* only by the destructor of D: the destructor of S releases none, and when D's
\* releases it no pipeline created with it is alive.
C17_AccelFollowsMove ==
  (kind = "compute" /\ status["D"] \notin {"unborn", "constructing"}) =>
    /\ pipeline_cache_["S"] = VK_NULL_HANDLE
    /\ status["D"] # "destroyed" => /\ pipeline_cache_["D"] = accel.handle
                                    /\ accel.handle # VK_NULL_HANDLE
                                    /\ accel.destroys = 0
    /\ status["D"] = "destroyed" => /\ pipeline_cache_["D"] = VK_NULL_HANDLE
                                    /\ accel.destroys = 1
                                    /\ cache_["D"] = {}
                                    /\ \A o \in alive : o.with # accel.handle
    /\ accel.creates = 1
    /\ \A t \in threads :
         th[t].pc = "d_tail"
           => IF th[t].c = "S" THEN pipeline_cache_["S"] = VK_NULL_HANDLE
              ELSE \A o \in alive : o.with # pipeline_cache_["D"]

\* C17 witness: S, moved from, then used again and destroyed, and after it D,
\* which held pipelines that came from S, have both been destroyed.
C17_Witness ==
  /\ kind = "compute"
  /\ status["S"] = "destroyed" /\ status["D"] = "destroyed"
  /\ accel.destroys = 1
  /\ \E k \in keys : purged["S"][k] # VK_NULL_HANDLE
  /\ \A k \in keys : purged["D"][k] # VK_NULL_HANDLE

----------------------------------------------------------------------------
(* Move construction against retrieve() on the source *)

\* The threads about to insert the Value holding native object o.
Inserting(o) == { t \in threads : th[t].pc = "r_insert" /\ th[t].tmp.handle_ = o.handle }

\* C18: the move constructor holds the lock of its source, and of no other
\* cache, while it moves the map, and no retrieve() on the source is inside its
\* critical section then; the move hands D exactly the nodes S held at that
\* moment, leaves S empty and makes no native call; in every interleaving with
\* retrieve() each native object alive is held by exactly one node of one of
\* the two caches (or by the Value retrieve() is about to insert), and none is
\* ever destroyed.
C18_MoveAgainstRetrieve ==
  /\ [](/\ staleDestroys = 0
        /\ \A o \in alive : Cardinality(Holders(o)) + Cardinality(Inserting(o)) = 1
        /\ \A t \in threads :
             th[t].pc = "m_body"
               => /\ cache_mutex_["S"] = t
                  /\ cache_mutex_["D"] = NoThread
                  /\ th[t].clean
                  /\ cache_["S"] = th[t].start
                  /\ \A u \in threads \ {t} : ~InSection(u, "S"))
  /\ [][ /\ alive \subseteq alive'
         /\ \A t \in threads :
              (th[t].pc = "m_body" /\ th'[t].pc = "m_ret")
                => /\ cache_'["D"] = cache_["S"]
                   /\ cache_'["S"] = {}
                   /\ alive' = alive
     ]_vars

\* C18 witness: the move has handed D a node a retrieve() had inserted into S
\* before it, and another thread's retrieve(), for the same key, has since
\* missed on the emptied S and inserted its own node there.
C18_Witness ==
  \E t, u \in threads :
    /\ t # u
    /\ th[t].pc = "m_ret"
    /\ th[u].pc = "r_return" /\ th[u].c = "S" /\ th[u].miss
    /\ \E e \in cache_["D"] : e.key = th[u].key
    /\ \E e \in cache_["S"] : e.key = th[u].key

----------------------------------------------------------------------------
(* Termination of the calls *)

====
